---- MODULE Spec2Model ----
(***************************************************************************)
(* A model of lib/sdk/preferences/native-options.js: enable, validate,     *)
(* setDefaults and injectOptions, with the host collaborators they call    *)
(* (the default and user preference branches, the observer list of the     *)
(* 'addon-options-displayed' topic, the add-on lookup callback, the parent *)
(* DOM node and the tag widgets).                                          *)
(*                                                                         *)
(* The file names two free identifiers, $ (line 127) and value (line 218); *)
(* the model takes them as bound by the host page, as the "Load tagit      *)
(* files" note of line 192 intends, and reads lines 198-203 and 223 with   *)
(* the closing parenthesis and the parameter list they were meant to have. *)
(***************************************************************************)
EXTENDS Integers, Sequences, FiniteSets, TLC

(***************************************************************************)
(* JavaScript values.  Every value is a record of one shape, so that TLC   *)
(* can compare any two of them.  A string is a sequence of tokens (words   *)
(* and punctuation marks); a number n is kept as h = 2n, so that 3.5 is    *)
(* h = 7 and a number is integral iff h is even.                            *)
(***************************************************************************)
JSVal(t, b, h, s, elems, fields) ==
  [t |-> t, b |-> b, h |-> h, s |-> s, elems |-> elems, fields |-> fields]

Undefined == JSVal("undefined", FALSE, 0, <<>>, <<>>, <<>>)

Null == JSVal("null", FALSE, 0, <<>>, <<>>, <<>>)

JSFunction == JSVal("function", FALSE, 0, <<>>, <<>>, <<>>)

JSBool(b) == JSVal("boolean", b, 0, <<>>, <<>>, <<>>)

JSNum(h) == JSVal("number", FALSE, h, <<>>, <<>>, <<>>)

JSStr(s) == JSVal("string", FALSE, 0, s, <<>>, <<>>)

JSArr(elems) == JSVal("array", FALSE, 0, <<>>, elems, <<>>)

JSObj(fields) == JSVal("object", FALSE, 0, <<>>, <<>>, fields)

Field(k, v) == [k |-> k, v |-> v]

\* typeof v
TypeOf(v) ==
  CASE v.t = "undefined" -> "undefined"
    [] v.t = "boolean" -> "boolean"
    [] v.t = "number" -> "number"
    [] v.t = "string" -> "string"
    [] v.t = "function" -> "function"
    [] OTHER -> "object"

\* !v
Falsy(v) ==
  \/ v.t \in {"undefined", "null"}
  \/ v.t = "boolean" /\ ~v.b
  \/ v.t = "number" /\ v.h = 0
  \/ v.t = "string" /\ v.s = <<>>

\* key in obj
HasKey(obj, key) == \E i \in 1..Len(obj.fields) : obj.fields[i].k = key

\* obj[key]
Get(obj, key) ==
  IF HasKey(obj, key)
  THEN obj.fields[CHOOSE i \in 1..Len(obj.fields) : obj.fields[i].k = key].v
  ELSE Undefined

(***************************************************************************)
(* JSON.stringify and JSON.parse over token sequences.                     *)
(***************************************************************************)
Quote == "\""

Backslash == "\\"

DigitTok == <<"0", "1", "2", "3", "4", "5", "6", "7", "8", "9">>

Digits == {DigitTok[i] : i \in 1..10}

DigitVal(c) == (CHOOSE i \in 1..10 : DigitTok[i] = c) - 1

RECURSIVE IntText(_)
IntText(n) ==
  IF n < 10 THEN <<DigitTok[n + 1]>>
  ELSE IntText(n \div 10) \o <<DigitTok[(n % 10) + 1]>>

NumText(h) ==
  LET a == IF h < 0 THEN -h ELSE h
  IN  (IF h < 0 THEN <<"-">> ELSE <<>>) \o IntText(a \div 2)
        \o (IF a % 2 = 1 THEN <<".", "5">> ELSE <<>>)

RECURSIVE EscapeText(_)
EscapeText(s) ==
  IF s = <<>> THEN <<>>
  ELSE (IF Head(s) \in {Quote, Backslash} THEN <<Backslash, Head(s)>>
        ELSE <<Head(s)>>) \o EscapeText(Tail(s))

StringText(s) == <<Quote>> \o EscapeText(s) \o <<Quote>>

RECURSIVE JSONstringify(_), ElemsText(_, _), FieldsText(_, _, _)
\* JSON.stringify(v), for a v that has a text (not undefined, not a function)
JSONstringify(v) ==
  CASE v.t = "null" -> <<"null">>
    [] v.t = "boolean" -> IF v.b THEN <<"true">> ELSE <<"false">>
    [] v.t = "number" -> NumText(v.h)
    [] v.t = "string" -> StringText(v.s)
    [] v.t = "array" -> <<"[">> \o ElemsText(v.elems, 1) \o <<"]">>
    [] v.t = "object" -> <<"{">> \o FieldsText(v.fields, 1, TRUE) \o <<"}">>
    [] OTHER -> <<"null">>

\* the elements of an array from the i-th on; undefined and functions print null
ElemsText(elems, i) ==
  IF i > Len(elems) THEN <<>>
  ELSE (IF i > 1 THEN <<",">> ELSE <<>>)
         \o JSONstringify(elems[i]) \o ElemsText(elems, i + 1)

\* the properties of an object from the i-th on; undefined ones are left out
FieldsText(fields, i, first) ==
  IF i > Len(fields) THEN <<>>
  ELSE IF fields[i].v.t \in {"undefined", "function"}
       THEN FieldsText(fields, i + 1, first)
       ELSE (IF first THEN <<>> ELSE <<",">>)
              \o StringText(fields[i].k) \o <<":">>
              \o JSONstringify(fields[i].v) \o FieldsText(fields, i + 1, FALSE)

ParseFail == [ok |-> FALSE, v |-> Undefined, pos |-> 0]

ParseOk(v, pos) == [ok |-> TRUE, v |-> v, pos |-> pos]

RECURSIVE ParseDigits(_, _, _)
\* digits from position i on: the number read so far is n
ParseDigits(txt, i, n) ==
  IF i <= Len(txt) /\ txt[i] \in Digits
  THEN ParseDigits(txt, i + 1, 10 * n + DigitVal(txt[i]))
  ELSE [n |-> n, pos |-> i]

ParseNumber(txt, i) ==
  LET neg == txt[i] = "-"
      j == IF neg THEN i + 1 ELSE i
  IN  IF j > Len(txt) \/ txt[j] \notin Digits THEN ParseFail
      ELSE LET d == ParseDigits(txt, j, 0)
               half == /\ d.pos + 1 <= Len(txt)
                       /\ txt[d.pos] = "."
                       /\ txt[d.pos + 1] = "5"
               a == 2 * d.n + (IF half THEN 1 ELSE 0)
           IN  ParseOk(JSNum(IF neg THEN -a ELSE a),
                       IF half THEN d.pos + 2 ELSE d.pos)

RECURSIVE ParseString(_, _, _)
\* the tokens of a string after its opening quote: acc is what was read
ParseString(txt, i, acc) ==
  IF i > Len(txt) THEN ParseFail
  ELSE IF txt[i] = Quote THEN ParseOk(JSStr(acc), i + 1)
  ELSE IF txt[i] = Backslash
       THEN IF i + 1 > Len(txt) THEN ParseFail
            ELSE ParseString(txt, i + 2, Append(acc, txt[i + 1]))
  ELSE ParseString(txt, i + 1, Append(acc, txt[i]))

RECURSIVE ParseValue(_, _), ParseElems(_, _, _), ParseFields(_, _, _)
ParseValue(txt, i) ==
  IF i > Len(txt) THEN ParseFail
  ELSE CASE txt[i] = "[" ->
              IF i + 1 <= Len(txt) /\ txt[i + 1] = "]"
              THEN ParseOk(JSArr(<<>>), i + 2)
              ELSE ParseElems(txt, i + 1, <<>>)
         [] txt[i] = "{" ->
              IF i + 1 <= Len(txt) /\ txt[i + 1] = "}"
              THEN ParseOk(JSObj(<<>>), i + 2)
              ELSE ParseFields(txt, i + 1, <<>>)
         [] txt[i] = Quote -> ParseString(txt, i + 1, <<>>)
         [] txt[i] \in Digits \cup {"-"} -> ParseNumber(txt, i)
         [] txt[i] = "true" -> ParseOk(JSBool(TRUE), i + 1)
         [] txt[i] = "false" -> ParseOk(JSBool(FALSE), i + 1)
         [] txt[i] = "null" -> ParseOk(Null, i + 1)
         [] OTHER -> ParseFail

\* one element, then a comma and the rest, or the closing bracket
ParseElems(txt, i, acc) ==
  LET r == ParseValue(txt, i)
  IN  IF ~r.ok \/ r.pos > Len(txt) THEN ParseFail
      ELSE IF txt[r.pos] = "]" THEN ParseOk(JSArr(Append(acc, r.v)), r.pos + 1)
      ELSE IF txt[r.pos] = "," THEN ParseElems(txt, r.pos + 1, Append(acc, r.v))
      ELSE ParseFail

\* one "key": value, then a comma and the rest, or the closing brace
ParseFields(txt, i, acc) ==
  IF i > Len(txt) \/ txt[i] # Quote THEN ParseFail
  ELSE LET k == ParseString(txt, i + 1, <<>>)
       IN  IF ~k.ok \/ k.pos > Len(txt) \/ txt[k.pos] # ":" THEN ParseFail
           ELSE LET r == ParseValue(txt, k.pos + 1)
                    fs == Append(acc, Field(k.v.s, r.v))
                IN  IF ~r.ok \/ r.pos > Len(txt) THEN ParseFail
                    ELSE IF txt[r.pos] = "}" THEN ParseOk(JSObj(fs), r.pos + 1)
                    ELSE IF txt[r.pos] = "," THEN ParseFields(txt, r.pos + 1, fs)
                    ELSE ParseFail

\* JSON.parse(txt): ok is FALSE where it throws a SyntaxError
JSONparse(txt) ==
  LET r == ParseValue(txt, 1)
  IN  IF r.ok /\ r.pos = Len(txt) + 1 THEN r ELSE ParseFail

(***************************************************************************)
(* Preference descriptors.  name and type are plain strings; title, label, *)
(* options, value, hidden and open are JavaScript values, Undefined where  *)
(* the descriptor does not carry the property.  description, on and off    *)
(* are copied to attributes only and are left out.                         *)
(***************************************************************************)
Descriptor(name, title, type, label, options, value, hidden, open) ==
  [name |-> name, title |-> title, type |-> type, label |-> label,
   options |-> options, value |-> value, hidden |-> hidden, open |-> open]

\* an option {value: v, label: l}; an Undefined argument leaves the property out
Option(v, l) ==
  JSObj((IF v = Undefined THEN <<>> ELSE <<Field(<<"value">>, v)>>)
          \o (IF l = Undefined THEN <<>> ELSE <<Field(<<"label">>, l)>>))

VALID_PREF_TYPES ==
  <<"bool", "boolint", "integer", "string", "color", "file", "directory",
    "control", "menulist", "multiple-select", "radio">>

\* VALID_PREF_TYPES.indexOf(type), counted from 0, -1 where it is absent
IndexOfType(type) ==
  IF \E i \in 1..Len(VALID_PREF_TYPES) : VALID_PREF_TYPES[i] = type
  THEN (CHOOSE i \in 1..Len(VALID_PREF_TYPES) :
          /\ VALID_PREF_TYPES[i] = type
          /\ \A j \in 1..(i - 1) : VALID_PREF_TYPES[j] # type) - 1
  ELSE -1

NoError == [kind |-> "none", name |-> ""]

\* Error("The '" + name + "' pref ..."): the kind stands for the message
PrefError(kind, name) == [kind |-> kind, name |-> name]

RECURSIVE CheckOptions(_, _)
\* the loop of lines 76-79 from the i-th option on
CheckOptions(options, i) ==
  IF i > Len(options.elems) THEN NoError
  ELSE LET item == options.elems[i]
       IN  IF ~HasKey(item, <<"value">>) \/ ~HasKey(item, <<"label">>)
           THEN PrefError("MalformedOption", "")
           ELSE CheckOptions(options, i + 1)

\* the body of validate's loop for one descriptor
ValidateDescriptor(d) ==
  IF Falsy(d.title) THEN PrefError("MissingTitle", d.name)
  ELSE IF IndexOfType(d.type) = -1 THEN PrefError("InvalidType", d.name)
  ELSE IF d.type = "control" /\ Falsy(d.label)
       THEN PrefError("MissingLabel", d.name)
  ELSE IF d.type = "menulist" \/ d.type = "multiple-select" \/ d.type = "radio"
       THEN IF Falsy(d.options) THEN PrefError("MissingOptions", d.name)
            ELSE CheckOptions(d.options, 1)
  ELSE NoError

RECURSIVE ValidateFrom(_, _)
\* validate's loop from the i-th descriptor on
ValidateFrom(prefs, i) ==
  IF i > Len(prefs) THEN [error |-> NoError, examined |-> Len(prefs)]
  ELSE LET e == ValidateDescriptor(prefs[i])
       IN  IF e # NoError THEN [error |-> e, examined |-> i]
           ELSE ValidateFrom(prefs, i + 1)

\* validate(preferences): the error it throws and how many descriptors it read
validate(prefs) == ValidateFrom(prefs, 1)

(***************************************************************************)
(* The preference store: a default branch and a user branch over the same  *)
(* names (the 'extensions.<preferencesBranch>.' prefix is the same in every *)
(* call and is left out).  A read through the user branch sees the user     *)
(* value where there is one and the default otherwise.                     *)
(***************************************************************************)
PrefNames == <<"p1", "p2", "p3", "p4">>

NameSet == {PrefNames[i] : i \in 1..Len(PrefNames)}

NoPref == [kind |-> "none", b |-> FALSE, i |-> 0, data |-> <<>>]

BoolPref(b) == [kind |-> "bool", b |-> b, i |-> 0, data |-> <<>>]

IntPref(i) == [kind |-> "int", b |-> FALSE, i |-> i, data |-> <<>>]

\* an nsISupportsString holding data
StringPref(data) == [kind |-> "string", b |-> FALSE, i |-> 0, data |-> data]

EmptyBranch == [n \in NameSet |-> NoPref]

\* what a getter of the user branch reads at name
Stored(user, default, name) ==
  IF user[name] # NoPref THEN user[name] ELSE default[name]

\* one setter call: the branch after it and the log of setter calls
Write(st, name, pref) ==
  [branch |-> [st.branch EXCEPT ![name] = pref],
   writes |-> Append(st.writes, [name |-> name, pref |-> pref])]

\* SetDefault without the test of line 99: every number is written
SetDefaultAnyNumber(st, d) ==
  CASE TypeOf(d.value) = "boolean" -> Write(st, d.name, BoolPref(d.value.b))
    [] TypeOf(d.value) = "number" -> Write(st, d.name, IntPref(d.value.h \div 2))
    [] TypeOf(d.value) = "string" -> Write(st, d.name, StringPref(d.value.s))
    [] TypeOf(d.value) = "object" ->
         IF ~Falsy(d.value)
         THEN Write(st, d.name, StringPref(JSONstringify(d.value)))
         ELSE st
    [] OTHER -> st

\* the switch of lines 93-116 for one descriptor
SetDefault(st, d) ==
  CASE TypeOf(d.value) = "boolean" -> Write(st, d.name, BoolPref(d.value.b))
    [] TypeOf(d.value) = "number" ->
         IF d.value.h % 2 = 0 THEN Write(st, d.name, IntPref(d.value.h \div 2))
         ELSE st
    [] TypeOf(d.value) = "string" -> Write(st, d.name, StringPref(d.value.s))
    [] TypeOf(d.value) = "object" ->
         IF ~Falsy(d.value)
         THEN Write(st, d.name, StringPref(JSONstringify(d.value)))
         ELSE st
    [] OTHER -> st

RECURSIVE SetDefaultsFrom(_, _, _)
SetDefaultsFrom(prefs, i, st) ==
  IF i > Len(prefs) THEN st
  ELSE SetDefaultsFrom(prefs, i + 1, SetDefault(st, prefs[i]))

\* setDefaults(preferences, preferencesBranch) on the default branch
setDefaults(prefs, branch) ==
  SetDefaultsFrom(prefs, 1, [branch |-> branch, writes |-> <<>>])

(***************************************************************************)
(* enable: the synchronous part up to the add-on lookup, and the lookup's  *)
(* callback.  steps is the order in which the call's statements ran.       *)
(***************************************************************************)
AddonId == "self@addon"

OtherId == "other@addon"

\* lines 25-35 and 51: validate, setDefaults, AddonManager.getAddonByID
enable(prefs, id, branch) ==
  LET v == validate(prefs)
      sd == setDefaults(prefs, branch)
  IN  IF v.error # NoError
      THEN [error |-> v.error, branch |-> branch, writes |-> <<>>,
            steps |-> <<"validate">>, lookup |-> FALSE]
      ELSE [error |-> NoError, branch |-> sd.branch, writes |-> sd.writes,
            steps |-> <<"validate", "setDefaults", "getAddonByID">>,
            lookup |-> TRUE]

\* lookupCallback without line 33: the promise is resolved, no listener added
lookupCallbackUnregistered(call, k, observers) ==
  [listeners |-> observers,
   call |-> [call EXCEPT !.steps = @ \o <<"on", "resolve">>,
                         !.promise = "resolved"]]

\* lines 32-35: the callback registers the listener, then resolves the promise
lookupCallback(call, k, observers) ==
  [listeners |-> Append(observers, k),
   call |-> [call EXCEPT !.steps = @ \o <<"on", "resolve">>,
                         !.promise = "resolved"]]

(***************************************************************************)
(* injectOptions.  A setting row is what parent.appendChild receives; a    *)
(* tag widget is the ul element with its tag list.                         *)
(***************************************************************************)
ChildOf(type) ==
  CASE type = "control" -> "button"
    [] type = "menulist" -> "menulist"
    [] type = "multiple-select" -> "ul"
    [] type = "radio" -> "radiogroup"
    [] OTHER -> "none"

\* lines 139-144: the setting element of a descriptor
Setting(d, id) ==
  [name |-> d.name, id |-> id, type |-> d.type, title |-> d.title,
   child |-> ChildOf(d.type)]

\* a tag {label: l, value: v}
Tag(l, v) == JSObj(<<Field(<<"label">>, l), Field(<<"value">>, v)>>)

\* lines 198-203: a string entry becomes {label: entry, value: index}
FillTags(jsonArr) ==
  [i \in 1..Len(jsonArr) |->
     IF TypeOf(jsonArr[i]) = "string" THEN Tag(jsonArr[i], JSNum(2 * (i - 1)))
     ELSE jsonArr[i]]

\* lines 182-190: the stored text as an array, [] where it is none
ParseStored(jsonStr) ==
  LET r == JSONparse(jsonStr)
  IN  IF r.ok /\ r.v.t = "array" THEN r.v.elems ELSE <<>>

\* saveTags writing the newest tag alone, in place of the whole list
saveNewestTag(user, name, tags) ==
  [user EXCEPT ![name] =
     StringPref(JSONstringify(JSArr(IF tags = <<>> THEN <<>>
                                    ELSE <<tags[Len(tags)]>>)))]

\* lines 126-132: the widget's tags, serialized, written to the user branch
saveTags(user, name, tags) ==
  [user EXCEPT ![name] = StringPref(JSONstringify(JSArr(tags)))]

\* lines 176-228: st after the multiple-select control of d is built
MultipleSelect(st, d, id, default) ==
  LET stored == Stored(st.user, default, d.name)
      tags == FillTags(ParseStored(stored.data))
  IN  IF stored.kind # "string"
      THEN [st EXCEPT !.raised = TRUE, !.raises = @ + 1]
      ELSE [st EXCEPT
              !.user = saveTags(st.user, d.name, tags),
              !.widgets = Append(@, [name |-> d.name, tags |-> tags,
                                     open |-> ~Falsy(d.open),
                                     source |-> d.options.elems,
                                     jsonArr |-> ParseStored(stored.data),
                                     changes |-> <<>>]),
              !.parent = Append(@, Setting(d, id))]

RECURSIVE InjectFrom(_, _, _, _, _)
\* the loop of lines 133-242 from the i-th descriptor on; a throw ends it
InjectFrom(prefs, id, default, i, st) ==
  IF i > Len(prefs) \/ st.raised THEN st
  ELSE LET d == prefs[i]
       IN  IF ~Falsy(d.hidden) THEN InjectFrom(prefs, id, default, i + 1, st)
           ELSE IF d.type = "multiple-select"
                THEN InjectFrom(prefs, id, default, i + 1,
                                MultipleSelect(st, d, id, default))
                ELSE InjectFrom(prefs, id, default, i + 1,
                                [st EXCEPT !.parent = Append(@, Setting(d, id))])

\* injectOptions({preferences, preferencesBranch, document, parent, id})
\* renders counts the calls, raises those that threw
injectOptions(prefs, id, default, st) ==
  InjectFrom(prefs, id, default, 1,
             [st EXCEPT !.raised = FALSE, !.renders = @ + 1])

\* lines 37-49: one listener's answer to a display event carrying data
onAddonOptionsDisplayed(prefs, id, data, default, st) ==
  IF data = id THEN injectOptions(prefs, id, default, st) ELSE st

RECURSIVE Notify(_, _, _, _, _, _, _)
\* the observer service calls every listener of the topic, in order
Notify(prefs, cs, observers, data, default, j, st) ==
  IF j > Len(observers) THEN st
  ELSE Notify(prefs, cs, observers, data, default, j + 1,
              onAddonOptionsDisplayed(prefs, cs[observers[j]].id, data,
                                      default, st))

(***************************************************************************)
(* The tag widget (the tagit calls of lines 127, 198 and 214-226): 'fill'  *)
(* sets the tag list, 'tags' reads it, and every change the user makes     *)
(* calls tagsChanged.                                                      *)
(***************************************************************************)
FreeLabels == {"c"}

\* the tags the user can add: an entry of tagSource, or new text when open
NewTags(w) ==
  {Tag(Get(w.source[i], <<"label">>), Get(w.source[i], <<"value">>)) :
     i \in 1..Len(w.source)}
    \cup (IF w.open THEN {Tag(JSStr(<<l>>), JSStr(<<l>>)) : l \in FreeLabels}
          ELSE {})

RemoveAt(tags, i) == SubSeq(tags, 1, i - 1) \o SubSeq(tags, i + 1, Len(tags))

\* the tag at i moved one place to the right
MoveRight(tags, i) ==
  [j \in 1..Len(tags) |->
     IF j = i THEN tags[i + 1] ELSE IF j = i + 1 THEN tags[i] ELSE tags[j]]

\* lines 223-225: tagsChanged saves the widget's tags
tagsChanged(user, w) == saveTags(user, w.name, w.tags)

(***************************************************************************)
(* Bounds and inputs.                                                      *)
(***************************************************************************)
MaxPrefs == 2

MaxCalls == 2

MaxEdits == 1

MaxTags == 3

MaxValidateLen == 2

MaxOptions == 2

MaxDefaultsLen == 2

Title == JSStr(<<"T">>)

TextA == JSStr(<<"a">>)

TextB == JSStr(<<"b">>)

OptionA == Option(TextA, TextA)

\* the descriptors of s, named by position
Named(s) == [i \in 1..Len(s) |-> [s[i] EXCEPT !.name = PrefNames[i]]]

\* the lists of 1 to n descriptors drawn from S
ListsOf(S, n) == {Named(s) : s \in UNION {[1..k -> S] : k \in 1..n}}

Shape(title, type, label, options, value, hidden, open) ==
  Descriptor("", title, type, label, options, value, hidden, open)

MultiSelect(value, hidden) ==
  Shape(Title, "multiple-select", Undefined, JSArr(<<OptionA>>), value, hidden,
        JSBool(TRUE))

\* the descriptors of the add-on whose panel is modelled
MainShapes ==
  { Shape(Title, "bool", Undefined, Undefined, JSBool(TRUE), Undefined, Undefined),
    Shape(Title, "integer", Undefined, Undefined, JSNum(6), JSBool(TRUE), Undefined),
    Shape(Undefined, "bool", Undefined, Undefined, JSBool(TRUE), Undefined, Undefined),
    Shape(Title, "menulist", Undefined, JSArr(<<>>), TextA, Undefined, Undefined),
    MultiSelect(JSArr(<<TextA, TextB>>), Undefined),
    MultiSelect(JSStr(<<"not", " ", "json">>), Undefined),
    MultiSelect(JSObj(<<Field(<<"a">>, JSNum(2))>>), Undefined),
    MultiSelect(Undefined, Undefined),
    MultiSelect(JSArr(<<TextA, TextB>>), JSBool(TRUE)) }

MainLists == ListsOf(MainShapes, MaxPrefs)

BoolPref1 ==
  Shape(Title, "bool", Undefined, Undefined, JSBool(TRUE), Undefined, Undefined)

HiddenInt ==
  Shape(Title, "integer", Undefined, Undefined, JSNum(6), JSBool(TRUE), Undefined)

\* the panels with a tag control: every list passes validate
PanelLists ==
  { Named(<<MultiSelect(v, Undefined)>>) :
      v \in {JSArr(<<TextA, TextB>>), JSArr(<<>>), JSStr(<<"not", " ", "json">>),
             JSObj(<<Field(<<"a">>, JSNum(2))>>), Undefined,
             JSArr(<<Tag(TextB, TextB), TextA>>)} }
    \cup { Named(<<BoolPref1, MultiSelect(JSArr(<<TextA, TextB>>), Undefined)>>),
           Named(<<HiddenInt, MultiSelect(JSStr(<<"[", "]">>), Undefined)>>),
           Named(<<MultiSelect(JSArr(<<TextA>>), Undefined), BoolPref1>>),
           Named(<<MultiSelect(Undefined, Undefined), BoolPref1>>),
           Named(<<MultiSelect(JSArr(<<TextA, TextB>>), JSBool(TRUE)), HiddenInt>>),
           Named(<<MultiSelect(JSArr(<<TextA>>), Undefined),
                   MultiSelect(JSArr(<<TextB>>), Undefined)>>) }

(***************************************************************************)
(* The state.                                                              *)
(***************************************************************************)
VARIABLES preferences, defaultBranch, userBranch, calls, listeners, parent,
          widgets, lastOp, edits

vars == <<preferences, defaultBranch, userBranch, calls, listeners, parent,
          widgets, lastOp, edits>>

\* what the last operation was and what it did
Op(op, error, examined, writes, data, renders, raises, widget) ==
  [op |-> op, error |-> error, examined |-> examined, writes |-> writes,
   data |-> data, renders |-> renders, raises |-> raises, widget |-> widget]

NoOp == Op("none", NoError, 0, <<>>, "", 0, 0, 0)

InitWith(lists, branches) ==
  /\ preferences \in lists
  /\ defaultBranch \in branches
  /\ userBranch = EmptyBranch
  /\ calls = <<>>
  /\ listeners = <<>>
  /\ parent = <<>>
  /\ widgets = <<>>
  /\ lastOp = NoOp
  /\ edits = 0

Init == InitWith(MainLists, {EmptyBranch})

\* the loader calls enable({preferences, id})
Enable ==
  /\ Len(calls) < MaxCalls
  /\ \E r \in {enable(preferences, AddonId, defaultBranch)} :
         /\ defaultBranch' = r.branch
         /\ calls' = IF r.lookup
                     THEN Append(calls, [id |-> AddonId, steps |-> r.steps,
                                         promise |-> "pending"])
                     ELSE calls
         /\ lastOp' = Op("enable", r.error, validate(preferences).examined,
                         r.writes, "", 0, 0, 0)
  /\ UNCHANGED <<preferences, userBranch, listeners, parent, widgets, edits>>

\* the add-on manager answers the lookup of call k
AddonCallback(k) ==
  /\ calls[k].promise = "pending"
  /\ \E r \in {lookupCallback(calls[k], k, listeners)} :
         /\ listeners' = r.listeners
         /\ calls' = [calls EXCEPT ![k] = r.call]
  /\ lastOp' = Op("callback", NoError, 0, <<>>, "", 0, 0, 0)
  /\ UNCHANGED <<preferences, defaultBranch, userBranch, parent, widgets, edits>>

\* the page the host hands over with a display event: the document is the
\* event's subject, built anew for the add-on whose details are shown
FreshPage(user) ==
  [user |-> user, parent |-> <<>>, widgets |-> <<>>, raised |-> FALSE,
   renders |-> 0, raises |-> 0]

\* the host broadcasts 'addon-options-displayed' with data
Display(data) ==
  /\ \E st \in {Notify(preferences, calls, listeners, data, defaultBranch, 1,
                      FreshPage(userBranch))} :
         /\ userBranch' = st.user
         /\ parent' = st.parent
         /\ widgets' = st.widgets
         /\ lastOp' = Op("display", NoError, 0, <<>>, data, st.renders,
                         st.raises, 0)
  /\ UNCHANGED <<preferences, defaultBranch, calls, listeners, edits>>

\* the user changes the tags of widget w to tags; changes is the widget's
\* record of what was done to it since it was filled
TagsEdited(w, tags, action) ==
  /\ edits < MaxEdits
  /\ edits' = edits + 1
  /\ \E ul \in {[widgets[w] EXCEPT !.tags = tags,
                                     !.changes = Append(@, action)]} :
       /\ widgets' = [widgets EXCEPT ![w] = ul]
       /\ userBranch' = tagsChanged(userBranch, ul)
  /\ lastOp' = Op(action, NoError, 0, <<>>, widgets[w].name, 0, 0, w)
  /\ UNCHANGED <<preferences, defaultBranch, calls, listeners, parent>>

TagAdded(w) ==
  /\ Len(widgets[w].tags) < MaxTags
  /\ \E tag \in NewTags(widgets[w]) :
       TagsEdited(w, Append(widgets[w].tags, tag), "added")

TagPopped(w) ==
  \E i \in 1..Len(widgets[w].tags) :
    TagsEdited(w, RemoveAt(widgets[w].tags, i), "popped")

TagMoved(w) ==
  \E i \in 1..(Len(widgets[w].tags) - 1) :
    TagsEdited(w, MoveRight(widgets[w].tags, i), "moved")

Next ==
  \/ Enable
  \/ \E k \in 1..Len(calls) : AddonCallback(k)
  \/ \E data \in {AddonId, OtherId} : Display(data)
  \/ \E w \in 1..Len(widgets) : TagAdded(w)
  \/ \E w \in 1..Len(widgets) : TagPopped(w)
  \/ \E w \in 1..Len(widgets) : TagMoved(w)

Spec == Init /\ [][Next]_vars

InitPanel == InitWith(PanelLists, {EmptyBranch})

SpecPanel == InitPanel /\ [][Next]_vars

(***************************************************************************)
(* validate and setDefaults on their own, over wider inputs.               *)
(***************************************************************************)
Titles == {Undefined, JSStr(<<>>), Title}

Labels == {Undefined, JSStr(<<>>), JSStr(<<"L">>)}

Types == {VALID_PREF_TYPES[i] : i \in 1..Len(VALID_PREF_TYPES)} \cup {"bogus"}

OptionTypes == {"menulist", "multiple-select", "radio"}

OptionItems == {OptionA, Option(Undefined, TextA), Option(TextA, Undefined)}

OptionLists ==
  {Undefined}
    \cup {JSArr(s) : s \in UNION {[1..k -> OptionItems] : k \in 0..MaxOptions}}

ValidateShapes ==
  { d \in { Shape(t, ty, l, o, Undefined, Undefined, Undefined) :
              t \in Titles, ty \in Types, l \in Labels, o \in OptionLists } :
      /\ d.label # Undefined => d.type \in {"control", "bogus"}
      /\ d.options # Undefined => d.type \in OptionTypes \cup {"bool"}
      /\ d.type = "bool" => Len(d.options.elems) <= 1 }

InitValidate == InitWith(ListsOf(ValidateShapes, MaxValidateLen), {EmptyBranch})

\* a caller runs the exported validate on the list
Validate ==
  /\ lastOp = NoOp
  /\ \E v \in {validate(preferences)} :
       lastOp' = Op("validate", v.error, v.examined, <<>>, "", 0, 0, 0)
  /\ UNCHANGED <<preferences, defaultBranch, userBranch, calls, listeners,
                 parent, widgets, edits>>

SpecValidate == InitValidate /\ [][Validate]_vars

DefaultValues ==
  { Undefined, Null, JSFunction, JSBool(TRUE), JSBool(FALSE), JSNum(0),
    JSNum(6), JSNum(7), JSNum(-4), JSNum(-3), JSStr(<<>>),
    JSStr(<<"not", " ", "json">>), JSArr(<<TextA, TextB>>),
    JSObj(<<Field(<<"a">>, JSNum(2))>>) }

DefaultDescriptors ==
  { Descriptor(n, Title, "string", Undefined, Undefined, v, Undefined, Undefined) :
      n \in {PrefNames[1], PrefNames[2]}, v \in DefaultValues }

DefaultsLists == UNION {[1..k -> DefaultDescriptors] : k \in 1..MaxDefaultsLen}

\* the default branch before the call: empty, or holding an earlier value
InitialBranches == {EmptyBranch, [n \in NameSet |-> IntPref(9)]}

InitDefaults == InitWith(DefaultsLists, InitialBranches)

\* a caller runs the exported setDefaults on the list
SetDefaults ==
  /\ lastOp = NoOp
  /\ \E sd \in {setDefaults(preferences, defaultBranch)} :
       /\ defaultBranch' = sd.branch
       /\ lastOp' = Op("setDefaults", NoError, 0, sd.writes, "", 0, 0, 0)
  /\ UNCHANGED <<preferences, userBranch, calls, listeners, parent, widgets,
                 edits>>

SpecDefaults == InitDefaults /\ [][SetDefaults]_vars

(***************************************************************************)
(* The specification's words, used to state the claims: what it counts as  *)
(* a schema violation (section 4.1), and the write it expects of the       *)
(* Default Initializer (section 4.2).                                      *)
(***************************************************************************)
Precedence ==
  <<"MissingTitle", "InvalidType", "MissingLabel", "MissingOptions",
    "MalformedOption">>

NoOptions(d) == d.options = Undefined \/ d.options.elems = <<>>

LacksValueOrLabel(d) ==
  \E i \in 1..Len(d.options.elems) :
    \/ ~HasKey(d.options.elems[i], <<"value">>)
    \/ ~HasKey(d.options.elems[i], <<"label">>)

\* the kinds of violation descriptor d carries; emptyToo says whether an
\* options list of zero entries counts as missing, as section 4.1 has it
ViolationsOf(d, emptyToo) ==
  {k \in {Precedence[i] : i \in 1..Len(Precedence)} :
     \/ k = "MissingTitle" /\ (d.title = Undefined \/ d.title = JSStr(<<>>))
     \/ k = "InvalidType" /\ d.type \notin {VALID_PREF_TYPES[i] : i \in 1..Len(VALID_PREF_TYPES)}
     \/ k = "MissingLabel" /\ d.type = "control"
          /\ (d.label = Undefined \/ d.label = JSStr(<<>>))
     \/ k = "MissingOptions" /\ d.type \in OptionTypes
          /\ (IF emptyToo THEN NoOptions(d) ELSE d.options = Undefined)
     \/ k = "MalformedOption" /\ d.type \in OptionTypes /\ LacksValueOrLabel(d)}

SchemaViolations(d) == ViolationsOf(d, TRUE)

Violating(prefs, emptyToo) ==
  {i \in 1..Len(prefs) : ViolationsOf(prefs[i], emptyToo) # {}}

Earliest(I) == CHOOSE i \in I : \A j \in I : i <= j

\* the kind of highest precedence among the kinds K
FirstKind(K) ==
  Precedence[Earliest({i \in 1..Len(Precedence) : Precedence[i] \in K})]

\* what validate is to answer on prefs: the error kind, NoError's where the
\* list is clean, and how many descriptors it had to read
Verdict(prefs, emptyToo) ==
  LET I == Violating(prefs, emptyToo)
  IN  IF I = {} THEN [kind |-> "none", examined |-> Len(prefs)]
      ELSE [kind |-> FirstKind(ViolationsOf(prefs[Earliest(I)], emptyToo)),
            examined |-> Earliest(I)]

\* the write section 4.2 expects for d: none, or one at d.name
ClaimedWrite(d) ==
  LET v == d.value
  IN  CASE v.t = "boolean" -> <<[name |-> d.name, pref |-> BoolPref(v.b)]>>
        [] v.t = "number" /\ v.h % 2 = 0 ->
             <<[name |-> d.name, pref |-> IntPref(v.h \div 2)]>>
        [] v.t = "string" -> <<[name |-> d.name, pref |-> StringPref(v.s)]>>
        [] v.t \in {"array", "object"} ->
             <<[name |-> d.name, pref |-> StringPref(JSONstringify(v))]>>
        [] OTHER -> <<>>

RECURSIVE ClaimedWrites(_, _)
ClaimedWrites(prefs, i) ==
  IF i > Len(prefs) THEN <<>>
  ELSE ClaimedWrite(prefs[i]) \o ClaimedWrites(prefs, i + 1)

\* the last write of the log at name n, NoPref where there is none
LastWritten(writes, n, before) ==
  LET I == {i \in 1..Len(writes) : writes[i].name = n}
  IN  IF I = {} THEN before
      ELSE writes[CHOOSE i \in I : \A j \in I : j <= i].pref

\* every storable default of prefs is in the default branch
DefaultsSeeded(prefs, default) ==
  \A i \in 1..Len(prefs) :
    ClaimedWrite(prefs[i]) # <<>> =>
      default[prefs[i].name] = LastWritten(ClaimedWrites(prefs, 1),
                                           prefs[i].name, NoPref)

StoreUnchanged ==
  \A n \in NameSet :
    Stored(userBranch', defaultBranch', n) = Stored(userBranch, defaultBranch, n)

\* the text is the JSON of an array
IsJSONArray(pref) ==
  pref.kind = "string" /\ JSONparse(pref.data).ok
    /\ JSONparse(pref.data).v.t = "array"

AllStrings(arr) == \A i \in 1..Len(arr) : arr[i].t = "string"

LabelOf(tag) == Get(tag, <<"label">>)

(***************************************************************************)
(* Claims.                                                                 *)
(***************************************************************************)

\* C1: when the descriptor list holds a schema violation (any of the five
\* kinds of section 4.1, at any position), enable fails, and the step in which
\* it fails writes no preference, registers no listener and creates no row.
C1_FailsBeforeAnyMutation ==
  [][lastOp'.op = "enable" /\ Violating(preferences, TRUE) # {} =>
       /\ lastOp'.error # NoError
       /\ UNCHANGED <<defaultBranch, userBranch, calls, listeners, parent,
                      widgets>>]_vars

\* C1, restricted to the violations validate detects (an options list that is
\* absent, not one that is empty): enable fails and changes nothing.
FailsBeforeAnyMutationIfDetected ==
  [][lastOp'.op = "enable" /\ Violating(preferences, FALSE) # {} =>
       /\ lastOp'.error # NoError
       /\ lastOp'.writes = <<>>
       /\ UNCHANGED <<defaultBranch, userBranch, calls, listeners, parent,
                      widgets>>]_vars

\* C2: a titled dropdown, multi-select or radio descriptor that validate
\* reaches fails with MissingOptions when options is absent and when it is
\* empty, and with MalformedOption when an entry lacks value or label.
C2_OptionsRequired ==
  lastOp.op = "validate" =>
    \A i \in 1..Len(preferences) :
      LET d == preferences[i]
      IN  (/\ \A j \in 1..(i - 1) : SchemaViolations(preferences[j]) = {}
           /\ d.title \notin {Undefined, JSStr(<<>>)}
           /\ d.type \in OptionTypes)
          => /\ NoOptions(d) => lastOp.error.kind = "MissingOptions"
             /\ (~NoOptions(d) /\ LacksValueOrLabel(d))
                  => lastOp.error.kind = "MalformedOption"

\* C2 without the empty list: absent options fail with MissingOptions, a
\* non-empty list with a bad entry fails with MalformedOption, and an empty
\* list passes.
OptionsRequiredUnlessEmpty ==
  lastOp.op = "validate" =>
    \A i \in 1..Len(preferences) :
      LET d == preferences[i]
      IN  (/\ \A j \in 1..(i - 1) : ViolationsOf(preferences[j], FALSE) = {}
           /\ d.title \notin {Undefined, JSStr(<<>>)}
           /\ d.type \in OptionTypes)
          => /\ d.options = Undefined => lastOp.error.kind = "MissingOptions"
             /\ (~NoOptions(d) /\ LacksValueOrLabel(d))
                  => lastOp.error.kind = "MalformedOption"
             /\ (d.options # Undefined /\ d.options.elems = <<>>
                   /\ i = Len(preferences))
                  => lastOp.error = NoError

\* C3: validate raises the error of the earliest violating descriptor, of the
\* kind first in the order title, type, label, options, option; it reads no
\* descriptor after that one; and a list with no violation raises nothing.
C3_FirstViolationWins ==
  lastOp.op = "validate" =>
    /\ lastOp.error.kind = Verdict(preferences, TRUE).kind
    /\ lastOp.examined = Verdict(preferences, TRUE).examined

\* C3 with an empty options list not counted as a violation.
FirstDetectedViolationWins ==
  lastOp.op = "validate" =>
    /\ lastOp.error.kind = Verdict(preferences, FALSE).kind
    /\ lastOp.examined = Verdict(preferences, FALSE).examined

\* C4: setDefaults makes, descriptor by descriptor, the one write the type of
\* value calls for and no other; an object is written as a text that parses
\* back to it; a name never written keeps the value it had.
C4_DefaultWrites ==
  [][lastOp'.op = "setDefaults" =>
       /\ lastOp'.writes = ClaimedWrites(preferences, 1)
       /\ \A i \in 1..Len(preferences) :
            /\ Len(ClaimedWrite(preferences[i])) <= 1
            /\ preferences[i].value.t \in {"array", "object"} =>
                 JSONparse(ClaimedWrite(preferences[i])[1].pref.data).v
                   = preferences[i].value
       /\ \A n \in NameSet :
            defaultBranch'[n] = LastWritten(lastOp'.writes, n, defaultBranch[n])]_vars

\* C4's case: a fractional number skipped beside an object that is written,
\* with the skipped name keeping its earlier value.
C4_Witness ==
  /\ lastOp.op = "setDefaults"
  /\ Len(preferences) = 2
  /\ preferences[1].value = JSNum(7)
  /\ preferences[2].value = JSObj(<<Field(<<"a">>, JSNum(2))>>)
  /\ preferences[1].name # preferences[2].name
  /\ Len(lastOp.writes) = 1
  /\ defaultBranch[preferences[1].name] = IntPref(9)
  /\ defaultBranch[preferences[2].name]
       = StringPref(<<"{", Quote, "a", Quote, ":", "1", "}">>)

RECURSIVE VisibleRows(_, _)
\* name and type of the descriptors of prefs that are not hidden, in order
VisibleRows(prefs, i) ==
  IF i > Len(prefs) THEN <<>>
  ELSE (IF prefs[i].hidden \in {Undefined, JSBool(FALSE)}
        THEN <<[name |-> prefs[i].name, type |-> prefs[i].type]>>
        ELSE <<>>) \o VisibleRows(prefs, i + 1)

RowsOf(rows) == [i \in 1..Len(rows) |-> [name |-> rows[i].name, type |-> rows[i].type]]

\* C5: a matching display event that is rendered appends one row for each
\* descriptor that is not hidden, in list order, and none for a hidden one;
\* the hidden descriptors' defaults are in the store all the same.
C5_OneRowPerVisible ==
  (lastOp.op = "display" /\ lastOp.data = AddonId /\ lastOp.renders >= 1) =>
    /\ RowsOf(parent) = VisibleRows(preferences, 1)
    /\ DefaultsSeeded(preferences, defaultBranch)

\* C5 for the events in which the one listener ran to its end.
OneRowPerVisibleUnlessRaised ==
  (lastOp.op = "display" /\ lastOp.data = AddonId /\ lastOp.renders = 1
     /\ lastOp.raises = 0) =>
    /\ RowsOf(parent) = VisibleRows(preferences, 1)
    /\ DefaultsSeeded(preferences, defaultBranch)

\* C6: once enable has returned, a display event is rendered exactly once when
\* it carries this add-on's id and not at all when it carries another, and an
\* event with another id leaves the page and the store as they were.
C6_RenderedExactlyOnce ==
  [][(lastOp'.op = "display" /\ Len(calls) > 0) =>
       /\ lastOp'.renders = (IF lastOp'.data = AddonId THEN 1 ELSE 0)
       /\ lastOp'.data # AddonId =>
            (parent' = <<>> /\ widgets' = <<>> /\ StoreUnchanged)]_vars

\* C6 as the code has it: an event is rendered once by each listener that is
\* registered when it arrives, and an event with another id does nothing.
RenderedOncePerListener ==
  [][lastOp'.op = "display" =>
       /\ lastOp'.renders = (IF lastOp'.data = AddonId THEN Len(listeners) ELSE 0)
       /\ lastOp'.data # AddonId =>
            (parent' = <<>> /\ widgets' = <<>> /\ StoreUnchanged
               /\ userBranch' = userBranch)]_vars

\* the tags the store holds for widget w, as JSON.parse reads them
SavedTags(w) ==
  JSONparse(Stored(userBranch, defaultBranch, widgets[w].name).data)

\* C7's case: the last step added one tag to a control that was filled from
\* a stored array of strings and has seen no other change
AddedToStrings(w) ==
  /\ lastOp.op = "added"
  /\ lastOp.widget = w
  /\ widgets[w].changes = <<"added">>
  /\ widgets[w].jsonArr # <<>>
  /\ AllStrings(widgets[w].jsonArr)

AddedLabel(w) == LabelOf(widgets[w].tags[Len(widgets[w].tags)])

C8_NeverRaises ==
  [][lastOp'.op = "display" =>
       /\ lastOp'.raises = 0
       /\ \A i \in 1..Len(preferences) :
            (/\ lastOp'.renders >= 1
             /\ preferences[i].type = "multiple-select"
             /\ preferences[i].hidden = Undefined
             /\ ~IsJSONArray(Stored(userBranch, defaultBranch, preferences[i].name)))
            => \E w \in 1..Len(widgets') :
                 /\ widgets'[w].name = preferences[i].name
                 /\ widgets'[w].tags = <<>>]_vars

\* C8 for a store that holds a text: no raise, and no tags unless the text is
\* the JSON of an array.
NeverRaisesOnStoredText ==
  [][lastOp'.op = "display" =>
       /\ (\A i \in 1..Len(preferences) :
             (preferences[i].type = "multiple-select"
                /\ preferences[i].hidden = Undefined)
               => Stored(userBranch, defaultBranch, preferences[i].name).kind = "string")
            => lastOp'.raises = 0
       /\ \A w \in 1..Len(widgets') :
            ~IsJSONArray(Stored(userBranch, defaultBranch, widgets'[w].name))
              => widgets'[w].tags = <<>>]_vars

\* C9: a stored preference value changes only in a step of enable (the
\* defaults) or in a tag change made by the user; a display event leaves
\* every stored value as it was.
C9_StoreChangesOnlyBySeedOrEdit ==
  [][~StoreUnchanged => lastOp'.op \in {"enable", "added", "popped", "moved"}]_vars

\* the promise of a call is resolved in this step
Resolves(k) ==
  /\ calls'[k].promise = "resolved"
  /\ (k <= Len(calls) => calls[k].promise # "resolved")

\* C10, in every state: a call that got past validate has its defaults in
\* the store; its steps ran in the order validate, setDefaults, getAddonByID,
\* on, resolve; its promise is resolved only with its listener registered;
\* and nothing is rendered without a listener and the defaults.
C10_Ordered ==
  /\ \A k \in 1..Len(calls) :
       /\ DefaultsSeeded(preferences, defaultBranch)
       /\ calls[k].steps \in
            {<<"validate", "setDefaults", "getAddonByID">>,
             <<"validate", "setDefaults", "getAddonByID", "on", "resolve">>}
       /\ calls[k].promise = "resolved" <=> Len(calls[k].steps) = 5
       /\ calls[k].promise = "resolved" <=>
            Cardinality({j \in 1..Len(listeners) : listeners[j] = k}) = 1
  /\ \A j \in 1..Len(listeners) : listeners[j] \in 1..Len(calls)
  /\ (lastOp.renders > 0 \/ parent # <<>> \/ widgets # <<>>) =>
       (listeners # <<>> /\ DefaultsSeeded(preferences, defaultBranch))

\* C10: the order holds in every state, and a promise is resolved only in a
\* step of the add-on lookup callback, for a call enable had returned from.
C10_EnableOrder ==
  /\ []C10_Ordered
  /\ [][\A k \in 1..Len(calls') :
          Resolves(k) => (lastOp'.op = "callback" /\ k <= Len(calls))]_vars

\* a resolved call whose panel has been rendered, with a default in the store
C10_Witness ==
  /\ \E k \in 1..Len(calls) : calls[k].promise = "resolved"
  /\ \E k \in 1..Len(calls) : calls[k].promise = "pending"
  /\ parent # <<>>
  /\ lastOp.op = "display"
  /\ \E n \in NameSet : defaultBranch[n] # NoPref

====
